---- MODULE Spec2Model ----
(***************************************************************************)
(* GantryMQ: the request/response dispatch of HWControlServer and the      *)
(* single-operator exclusion protocol, with the HWControlClient round trip *)
(* and the gcoder, camera and rigol endpoints the server hosts.            *)
(*                                                                         *)
(* Spec       clients that send well-formed requests                       *)
(* SpecWire   Spec, with peers that also send what no client sends         *)
(* SpecLock   clients that send the lock methods under any hw_name         *)
(* SpecRigol  clients of an initialized power supply                       *)
(* SpecRelay  a MemHandler on its own                                      *)
(* SpecClient clients that run close and move_to, step by step             *)
(* SpecOverlap clients of an endpoint listing one method in both lists     *)
(* SpecStubs  the methods of the client classes, as the server sorts them  *)
(*                                                                         *)
(* A server context x is the record                                        *)
(*   operator_id  HWControlServer._operator_id                             *)
(*   record_list  MemHandler.record_list (the deque of buffered records)   *)
(*   hw           the state of every endpoint of hw_list, by name          *)
(*   trace        what the handler did, in order: <<"set", old, new>> for  *)
(*                an assignment to _operator_id, <<"call", hw, fn, op>>    *)
(*                for the driver method call, op the operator at the call  *)
(*   exc          the exception propagating out of the handler, or NoExc   *)
(*   ret          the value a driver method returned                       *)
(*   sent         the responses handed to socket.send, in order            *)
(*   emitted      the records handed to MemHandler.emit, in order          *)
(*   loop         how the turn leaves the while loop of run_server:        *)
(*                "continue", "break", "crash" for an escaping exception   *)
(***************************************************************************)
EXTENDS Integers, Sequences, FiniteSets, TLC

\* operator_id  HWControlServer._operator_id
\* record_list  HWControlServer.mem_handle.record_list
\* hw           the state of the endpoints of HWControlServer.hw_list
\* log_level    the effective level of the logger the server was built with
\* chan         per client, the REQ socket: idle, or a request sent whose
\*              response the client is blocked waiting for
\* last         the record of the server's latest turn (see NoTurn)
\* running      the while loop of HWControlServer.run_server is running
\* pc           per client, where its thread stands: "main", or a position in
\*              HWControlClient.close or in the client's GCoderDevice.move_to
VARIABLES operator_id, record_list, hw, log_level, chan, last, running, pc

vars == <<operator_id, record_list, hw, log_level, chan, last, running, pc>>

-----------------------------------------------------------------------------
(* Bounds of the model and constants of the program *)

\* the largest coordinate a move_to request names
MaxCoord == 1

\* MemHandler(capacity=1024)
Capacity == 1024

\* logging levels
NOTSET == 0
INFO == 20
WARNING == 30

None == "None"
NoExc == [type |-> "NoExc", msg |-> "", who |-> None]

\* client_id is hostname@pid, one per client process
Clients == {"A", "B"}

Origin == <<0, 0, 0>>

\* the capacity of the MemHandler whose overflow is explored, and the number
\* of different messages logged to it
RelayCap == 3
MaxMessage == 2

\* the voltages the clients ask the power supply for, in volt
LowVolt == 5
HighVolt == 12

-----------------------------------------------------------------------------
(* Values crossing the wire *)

NoneVal == <<"none">>
BoolVal(b) == <<"bool", b>>
TupleVal(t) == <<"tuple", t>>
StrVal(s) == <<"str", s>>

Exc(type, msg, who) == [type |-> type, msg |-> msg, who |-> who]

-----------------------------------------------------------------------------
(* MemHandler and the logger *)

\* a deque whose append turns the newest record away when it is full
deque_append_newest(list, record, maxlen) ==
    IF Len(list) >= maxlen THEN list ELSE Append(list, record)

\* collections.deque([], maxlen=capacity).append: the oldest record leaves
\* a full deque
deque_append(list, record, maxlen) ==
    IF maxlen = 0 THEN <<>>
    ELSE IF Len(list) >= maxlen THEN Append(Tail(list), record)
    ELSE Append(list, record)

\* MemHandler.emit
emit(x, record) ==
    [x EXCEPT !.record_list = deque_append(@, record, Capacity),
              !.emitted = Append(@, record)]

\* Logger.info / Logger.warn: a record is created when the level is enabled
logger_log(x, level, msg) ==
    IF level >= log_level
    THEN emit(x, [msg |-> msg, level |-> level])
    ELSE x

-----------------------------------------------------------------------------
(* The operator lock: HWControlServer.claim_operator / release_operator *)

raise(x, e) == [x EXCEPT !.exc = e]

\* self._operator_id = value
set_operator(x, value) ==
    [x EXCEPT !.operator_id = value,
              !.trace = Append(@, <<"set", x.operator_id, value>>)]

\* claim_operator taking the lock over whatever error_if_claimed says
claim_operator_forced(x, client_id, error_if_claimed) ==
    IF x.operator_id = None
    THEN set_operator(logger_log(x, INFO, <<"Claiming", client_id>>), client_id)
    ELSE IF x.operator_id # client_id
         THEN set_operator(
                  logger_log(x, WARNING, <<"ClaimFromExisting", x.operator_id>>),
                  client_id)
         ELSE set_operator(x, client_id)

\* claim_operator reporting a takeover with logger.info
claim_operator_quiet(x, client_id, error_if_claimed) ==
    IF x.operator_id = None
    THEN set_operator(logger_log(x, INFO, <<"Claiming", client_id>>), client_id)
    ELSE IF x.operator_id # client_id
         THEN IF error_if_claimed
              THEN raise(x, Exc("RuntimeError", "OperatorClaimed", x.operator_id))
              ELSE set_operator(
                       logger_log(x, INFO, <<"ClaimFromExisting", x.operator_id>>),
                       client_id)
         ELSE set_operator(x, client_id)

claim_operator(x, client_id, error_if_claimed) ==
    IF x.operator_id = None
    THEN set_operator(logger_log(x, INFO, <<"Claiming", client_id>>), client_id)
    ELSE IF x.operator_id # client_id
         THEN IF error_if_claimed
              THEN raise(x, Exc("RuntimeError", "OperatorClaimed", x.operator_id))
              ELSE set_operator(
                       logger_log(x, WARNING, <<"ClaimFromExisting", x.operator_id>>),
                       client_id)
         ELSE set_operator(x, client_id)

\* release_operator leaving the empty string in place of None
release_operator_blank(x, client_id) ==
    IF x.operator_id # None /\ x.operator_id # client_id
    THEN raise(x, Exc("RuntimeError", "ReleaseByNonOperator", x.operator_id))
    ELSE set_operator(logger_log(x, INFO, <<"Releasing", client_id>>), "")

\* release_operator without the check of who holds the lock
release_operator_any(x, client_id) ==
    set_operator(logger_log(x, INFO, <<"Releasing", client_id>>), None)

\* release_operator refusing every caller that is not the operator
release_operator_strict(x, client_id) ==
    IF x.operator_id # client_id
    THEN raise(x, Exc("RuntimeError", "ReleaseByNonOperator", x.operator_id))
    ELSE set_operator(logger_log(x, INFO, <<"Releasing", client_id>>), None)

release_operator(x, client_id) ==
    IF x.operator_id # None /\ x.operator_id # client_id
    THEN raise(x, Exc("RuntimeError", "ReleaseByNonOperator", x.operator_id))
    ELSE set_operator(logger_log(x, INFO, <<"Releasing", client_id>>), None)

-----------------------------------------------------------------------------
(* The endpoints of hw_list: a CameraDevice named camera, a GCoderDevice    *)
(* named gcoder, a RigolPS named rigol, and an HWBaseInstance named        *)
(* overlap whose telemetry_methods and operation_methods share a name.     *)

hw_list == <<"camera", "gcoder", "rigol", "overlap">>

InList(e, list) == \E i \in DOMAIN list : list[i] = e

\* CameraDevice.telemetry_methods / GCoderDevice.telemetry_methods /
\* HVLVDevice.telemetry_methods / SenAUXDevice.telemetry_methods
\* RigolPS declares none: HWBaseInstance.telemetry_methods returns []
\* DRSDevice declares a property telemetry_method, which nothing reads: its
\* telemetry_methods is that of HWBaseInstance as well
\* the endpoint overlap lists sample here and among its operation methods
telemetry_methods(name) ==
    CASE name = "camera" -> <<"get_frame">>
      [] name = "overlap" -> <<"sample">>
      [] name = "hvlv" ->
            <<"get_hv_status", "get_hv_mv", "get_hv_control_mv", "get_lv_mv",
              "get_vdd_mv">>
      [] name = "senaux" ->
            <<"status_pd1", "status_pd2", "adc_readmv", "adc_biasresistor">>
      [] name = "gcoder" ->
            <<"get_coord", "get_current_coord", "get_speed", "get_settings", "in_motion">>
      [] OTHER -> <<>>

\* CameraDevice.operation_methods / GCoderDevice.operation_methods /
\* DRSDevice.operation_methods / HVLVDevice.operation_methods /
\* SenAUXDevice.operation_methods
\* RigolPS declares none: HWBaseInstance.operation_methods returns []
operation_methods(name) ==
    CASE name = "camera" -> <<"reset_devices">>
      [] name = "overlap" -> <<"reset_devices", "sample">>
      [] name = "drs" ->
            <<"reset_devices", "set_trigger", "set_samples", "set_rate",
              "start_collection", "force_stop", "run_calibration">>
      [] name = "hvlv" ->
            <<"reset_devices", "hv_enable", "hv_disable", "set_hv_control_mv",
              "set_lv_mv">>
      [] name = "senaux" ->
            <<"reset_devices", "enable_pd1", "disable_pd1", "enable_pd2",
              "disable_pd2", "pulse_f1", "pulse_f2">>
      [] name = "gcoder" ->
            <<"reset_devices", "run_gcode", "set_speed_limit", "move_to",
              "send_home", "enable_stepper", "disable_stepper">>
      [] OTHER -> <<>>

all_telemetry_methods(name) == telemetry_methods(name) \o <<"is_initialized", "is_dummy">>

all_operation_methods(name) == operation_methods(name)

\* _DummyGantry_.__init__
DummyGantry == [device |-> "dummy", op |-> Origin, v |-> Origin, c |-> Origin]

\* GCoderDevice.__init__: self.device = None
NoGantry == [device |-> None, op |-> Origin, v |-> Origin, c |-> Origin]

\* CameraDevice.__init__: self.device = None (the dummy camera)
NoCamera == [device |-> None]

\* CameraDevice.is_initialized / GCoderDevice.is_initialized /
\* RigolPS.is_initialized
is_initialized(x, name) ==
    IF name \in {"camera", "overlap"} THEN TRUE ELSE x.hw[name].device # None

\* CameraDevice.is_dummy / GCoderDevice.is_dummy / HWBaseInstance.is_dummy
is_dummy(x, name) ==
    CASE name = "camera" -> x.hw[name].device = None
      [] name = "gcoder" -> x.hw[name].device = "dummy"
      [] OTHER -> FALSE

returns(x, value) == [x EXCEPT !.ret = value]

set_hw(x, name, state) == [x EXCEPT !.hw[name] = state]

\* CameraDevice methods on the dummy camera
camera_method(x, name, fn, args) ==
    CASE fn = "is_initialized" -> returns(x, BoolVal(is_initialized(x, name)))
      [] fn = "is_dummy" -> returns(x, BoolVal(is_dummy(x, name)))
      [] fn = "get_frame" -> returns(x, <<"array", <<>>>>)
      [] fn = "reset_devices" ->
            IF (name \o "_device_path") \notin args[1]
            THEN raise(x, Exc("AssertionError", "", None))
            ELSE returns(x, NoneVal)
      [] OTHER -> raise(x, Exc("AttributeError", fn, None))

\* _DummyGantry_.send_home
gantry_send_home(g, args) ==
    LET home(t) == [i \in 1..3 |-> IF args[i] = TRUE THEN 0 ELSE t[i]]
    IN [g EXCEPT !.op = home(@), !.c = home(@)]

\* GCoderDevice methods, the device being a _DummyGantry_
gcoder_method(x, name, fn, args) ==
    LET g == x.hw[name]
    IN
    CASE fn = "is_initialized" -> returns(x, BoolVal(is_initialized(x, name)))
      [] fn = "is_dummy" -> returns(x, BoolVal(is_dummy(x, name)))
      [] fn = "get_coord" -> returns(x, TupleVal(g.op))
      [] fn = "get_current_coord" -> returns(x, TupleVal(g.c))
      [] fn = "get_speed" -> returns(x, TupleVal(g.v))
         \* _DummyGantry_ has no get_settings
      [] fn = "get_settings" -> raise(x, Exc("AttributeError", "get_settings", None))
      [] fn = "in_motion" -> returns(x, BoolVal(FALSE))
      [] fn = "reset_devices" ->
            IF "gcoder_device" \notin args[1]
            THEN raise(set_hw(x, name, NoGantry), Exc("AssertionError", "", None))
            ELSE returns(set_hw(x, name, DummyGantry), NoneVal)
      [] fn = "run_gcode" -> returns(x, StrVal("Dummy gantry_system, do nothing"))
      [] fn = "set_speed_limit" ->
            returns(set_hw(x, name, [g EXCEPT !.v = args]), NoneVal)
      [] fn = "move_to" ->
            returns(set_hw(x, name, [g EXCEPT !.op = args, !.c = args]), NoneVal)
         \* return self.send_home(x, y, z): the method calls itself
      [] fn = "send_home" -> raise(x, Exc("RecursionError", "", None))
      [] fn = "enable_stepper" -> returns(x, NoneVal)
      [] fn = "disable_stepper" -> returns(x, NoneVal)
      [] OTHER -> raise(x, Exc("AttributeError", fn, None))

\* the methods of the endpoint overlap: an HWBaseInstance that is always
\* initialized, holds no device, and whose methods return None
overlap_method(x, name, fn, args) ==
    CASE fn = "is_initialized" -> returns(x, BoolVal(is_initialized(x, name)))
      [] fn = "is_dummy" -> returns(x, BoolVal(is_dummy(x, name)))
      [] fn = "sample" -> returns(x, NoneVal)
      [] fn = "reset_devices" -> returns(x, NoneVal)
      [] OTHER -> raise(x, Exc("AttributeError", fn, None))

\* RigolPS.__init__: self.device = None
NoRigol == [device |-> None, volt |-> <<0, 0>>]

\* RigolPS after __connect_usb found the supply, its outputs at zero
OpenRigol == [device |-> "visa", volt |-> <<0, 0>>]

\* RigolPS methods, the supply applying and measuring what it is told
rigol_method(x, name, fn, args) ==
    LET r == x.hw[name]
    IN
    CASE fn = "is_initialized" -> returns(x, BoolVal(is_initialized(x, name)))
      [] fn = "is_dummy" -> returns(x, BoolVal(is_dummy(x, name)))
      [] fn = "set_voltage" ->
            IF args[1] \notin {1, 2}
               \/ (args[1] = 1 /\ ~(0 <= args[2] /\ args[2] <= 60))
               \/ (args[1] = 2 /\ ~(0 <= args[2] /\ args[2] <= 8))
            THEN raise(x, Exc("AssertionError", "", None))
            ELSE returns(set_hw(x, name, [r EXCEPT !.volt[args[1]] = args[2]]), NoneVal)
      [] fn = "get_voltage" ->
            IF args[1] \notin {1, 2}
            THEN raise(x, Exc("AssertionError", "", None))
            ELSE returns(x, <<"float", r.volt[args[1]]>>)
      [] OTHER -> raise(x, Exc("AttributeError", fn, None))

\* method = getattr(hw, function_name), then the call of method on args/kwargs
\* args is what run_single_request holds as args and kwargs: <<"given", a>>
\* for the request's own, Defaults for the parameter defaults Tuple[Any] and
\* Dict[str, Any], which the call cannot unpack
call_method(x, name, fn, args) ==
    IF args[1] # "given"
    THEN raise(x, Exc("TypeError", "ArgumentUnpacking", None))
    ELSE LET y == [x EXCEPT !.trace = Append(@, <<"call", name, fn, x.operator_id>>)]
         IN CASE name = "camera" -> camera_method(y, name, fn, args[2])
              [] name = "gcoder" -> gcoder_method(y, name, fn, args[2])
              [] name = "overlap" -> overlap_method(y, name, fn, args[2])
              [] OTHER -> rigol_method(y, name, fn, args[2])

-----------------------------------------------------------------------------
(* HWControlServer: the dispatcher and one turn of the server loop *)

\* HWControlServer.clear_message: the buffered records, and the deque cleared
clear_message(x) == [x EXCEPT !.record_list = <<>>]

\* run_single_request.return_response:
\* socket.send of {"messages": self.clear_message(), "return": ret}
return_response(x, ret) ==
    [clear_message(x) EXCEPT
        !.sent = Append(@, [messages |-> x.record_list, return |-> ret])]

\* exception_response reading the records without clearing the deque
exception_response_keep(x, err) ==
    [x EXCEPT !.sent = Append(@, [messages |-> x.record_list, exception |-> err])]

\* exception_response with the keys of both outcomes
exception_response_both(x, err) ==
    [clear_message(x) EXCEPT
        !.sent = Append(@, [messages |-> x.record_list, return |-> NoneVal,
                            exception |-> err])]

\* run_server, except Exception as err:
\* socket.send of {"messages": self.clear_message(), "exception": err}
exception_response(x, err) ==
    [clear_message(x) EXCEPT
        !.sent = Append(@, [messages |-> x.record_list, exception |-> err])]

\* HWControlServer.hw_instance: is an endpoint of hw_list named hw_name
hw_found(hw_name) == InList(hw_name, hw_list)

\* dispatch without the operator check on the operation branch
dispatch_unchecked(x, client_id, hw_name, function_name, args) ==
    IF ~is_initialized(x, hw_name)
    THEN raise(x, Exc("AssertionError", "NotInitialized", hw_name))
    ELSE IF InList(function_name, all_telemetry_methods(hw_name))
            \/ InList(function_name, all_operation_methods(hw_name))
    THEN LET y == call_method(x, hw_name, function_name, args)
         IN IF y.exc # NoExc THEN y ELSE return_response(y, y.ret)
    ELSE raise(x, Exc("RuntimeError", "NotRecognized", function_name))

\* dispatch claiming the operator after the operation method has run
dispatch_claim_late(x, client_id, hw_name, function_name, args) ==
    IF ~is_initialized(x, hw_name)
    THEN raise(x, Exc("AssertionError", "NotInitialized", hw_name))
    ELSE IF InList(function_name, all_telemetry_methods(hw_name))
    THEN LET y == call_method(x, hw_name, function_name, args)
         IN IF y.exc # NoExc THEN y ELSE return_response(y, y.ret)
    ELSE IF InList(function_name, all_operation_methods(hw_name))
    THEN LET y == call_method(x, hw_name, function_name, args)
             c == IF y.exc # NoExc THEN y
                  ELSE claim_operator(y, client_id, TRUE)
         IN IF c.exc # NoExc THEN c ELSE return_response(c, c.ret)
    ELSE raise(x, Exc("RuntimeError", "NotRecognized", function_name))

\* dispatch claiming the operator for telemetry methods too
dispatch_claim_all(x, client_id, hw_name, function_name, args) ==
    IF ~is_initialized(x, hw_name)
    THEN raise(x, Exc("AssertionError", "NotInitialized", hw_name))
    ELSE IF InList(function_name, all_telemetry_methods(hw_name))
            \/ InList(function_name, all_operation_methods(hw_name))
    THEN LET c == claim_operator(x, client_id, TRUE)
             y == IF c.exc # NoExc THEN c
                  ELSE call_method(c, hw_name, function_name, args)
         IN IF y.exc # NoExc THEN y ELSE return_response(y, y.ret)
    ELSE raise(x, Exc("RuntimeError", "NotRecognized", function_name))

\* dispatch taking every name that is no telemetry method for an operation
dispatch_fallthrough(x, client_id, hw_name, function_name, args) ==
    IF ~is_initialized(x, hw_name)
    THEN raise(x, Exc("AssertionError", "NotInitialized", hw_name))
    ELSE IF InList(function_name, all_telemetry_methods(hw_name))
    THEN LET y == call_method(x, hw_name, function_name, args)
         IN IF y.exc # NoExc THEN y ELSE return_response(y, y.ret)
    ELSE LET c == claim_operator(x, client_id, TRUE)
             y == IF c.exc # NoExc THEN c
                  ELSE call_method(c, hw_name, function_name, args)
         IN IF y.exc # NoExc THEN y ELSE return_response(y, y.ret)

\* dispatch asserting that the endpoint is initialized only after the
\* operator is claimed
dispatch_unready(x, client_id, hw_name, function_name, args) ==
    IF InList(function_name, all_telemetry_methods(hw_name))
    THEN IF ~is_initialized(x, hw_name)
         THEN raise(x, Exc("AssertionError", "NotInitialized", hw_name))
         ELSE LET y == call_method(x, hw_name, function_name, args)
              IN IF y.exc # NoExc THEN y ELSE return_response(y, y.ret)
    ELSE IF InList(function_name, all_operation_methods(hw_name))
    THEN LET c == claim_operator(x, client_id, TRUE)
             y == IF c.exc # NoExc THEN c
                  ELSE IF ~is_initialized(c, hw_name)
                  THEN raise(c, Exc("AssertionError", "NotInitialized", hw_name))
                  ELSE call_method(c, hw_name, function_name, args)
         IN IF y.exc # NoExc THEN y ELSE return_response(y, y.ret)
    ELSE raise(x, Exc("RuntimeError", "NotRecognized", function_name))

\* dispatch answering is_initialized before the assertion that the endpoint
\* is initialized
dispatch_query_first(x, client_id, hw_name, function_name, args) ==
    IF function_name = "is_initialized"
    THEN LET y == call_method(x, hw_name, function_name, args)
         IN IF y.exc # NoExc THEN y ELSE return_response(y, y.ret)
    ELSE IF ~is_initialized(x, hw_name)
    THEN raise(x, Exc("AssertionError", "NotInitialized", hw_name))
    ELSE IF InList(function_name, all_telemetry_methods(hw_name))
    THEN LET y == call_method(x, hw_name, function_name, args)
         IN IF y.exc # NoExc THEN y ELSE return_response(y, y.ret)
    ELSE IF InList(function_name, all_operation_methods(hw_name))
    THEN LET c == claim_operator(x, client_id, TRUE)
             y == IF c.exc # NoExc THEN c
                  ELSE call_method(c, hw_name, function_name, args)
         IN IF y.exc # NoExc THEN y ELSE return_response(y, y.ret)
    ELSE raise(x, Exc("RuntimeError", "NotRecognized", function_name))

\* dispatch letting reset_devices through to an endpoint that is not
\* initialized
dispatch_reset_anytime(x, client_id, hw_name, function_name, args) ==
    IF ~is_initialized(x, hw_name) /\ function_name # "reset_devices"
    THEN raise(x, Exc("AssertionError", "NotInitialized", hw_name))
    ELSE IF InList(function_name, all_telemetry_methods(hw_name))
    THEN LET y == call_method(x, hw_name, function_name, args)
         IN IF y.exc # NoExc THEN y ELSE return_response(y, y.ret)
    ELSE IF InList(function_name, all_operation_methods(hw_name))
    THEN LET c == claim_operator(x, client_id, TRUE)
             y == IF c.exc # NoExc THEN c
                  ELSE call_method(c, hw_name, function_name, args)
         IN IF y.exc # NoExc THEN y ELSE return_response(y, y.ret)
    ELSE raise(x, Exc("RuntimeError", "NotRecognized", function_name))

\* dispatch testing the operation methods before the telemetry methods
dispatch_operation_first(x, client_id, hw_name, function_name, args) ==
    IF ~is_initialized(x, hw_name)
    THEN raise(x, Exc("AssertionError", "NotInitialized", hw_name))
    ELSE IF InList(function_name, all_operation_methods(hw_name))
    THEN LET c == claim_operator(x, client_id, TRUE)
             y == IF c.exc # NoExc THEN c
                  ELSE call_method(c, hw_name, function_name, args)
         IN IF y.exc # NoExc THEN y ELSE return_response(y, y.ret)
    ELSE IF InList(function_name, all_telemetry_methods(hw_name))
    THEN LET y == call_method(x, hw_name, function_name, args)
         IN IF y.exc # NoExc THEN y ELSE return_response(y, y.ret)
    ELSE raise(x, Exc("RuntimeError", "NotRecognized", function_name))

\* the branch run_single_request takes for a method of an initialized
\* endpoint: the telemetry methods are tested first, then the operation
\* methods, and a name in neither list raises the not-recognized error
branch(hw_name, function_name) ==
    IF InList(function_name, all_telemetry_methods(hw_name)) THEN "telemetry"
    ELSE IF InList(function_name, all_operation_methods(hw_name)) THEN "operation"
    ELSE "not recognized"

\* run_single_request once the endpoint is resolved
dispatch(x, client_id, hw_name, function_name, args) ==
    IF ~is_initialized(x, hw_name)
    THEN raise(x, Exc("AssertionError", "NotInitialized", hw_name))
    ELSE IF InList(function_name, all_telemetry_methods(hw_name))
    THEN LET y == call_method(x, hw_name, function_name, args)
         IN IF y.exc # NoExc THEN y ELSE return_response(y, y.ret)
    ELSE IF InList(function_name, all_operation_methods(hw_name))
    THEN LET c == claim_operator(x, client_id, TRUE)
             y == IF c.exc # NoExc THEN c
                  ELSE call_method(c, hw_name, function_name, args)
         IN IF y.exc # NoExc THEN y ELSE return_response(y, y.ret)
    ELSE raise(x, Exc("RuntimeError", "NotRecognized", function_name))

\* run_single_request answering is_operator with whether anyone is operator
run_single_request_anyone(x, request) ==
    LET client_id == request.client_id
        function_name == request.function_name
    IN
    IF function_name = "is_operator"
    THEN return_response(x, BoolVal(x.operator_id # None))
    ELSE IF function_name = "claim_operator"
    THEN LET y == claim_operator(x, client_id, FALSE)
         IN IF y.exc # NoExc THEN y ELSE return_response(y, NoneVal)
    ELSE IF function_name = "release_operator"
    THEN LET y == release_operator(x, client_id)
         IN IF y.exc # NoExc THEN y ELSE return_response(y, NoneVal)
    ELSE IF ~hw_found(request.hw_name)
    THEN raise(x, Exc("RuntimeError", "HardwareNotFound", request.hw_name))
    ELSE dispatch(x, client_id, request.hw_name, function_name, request.args)

\* run_single_request looking the endpoint up before anything else
run_single_request_lookup(x, request) ==
    LET client_id == request.client_id
        function_name == request.function_name
    IN
    IF ~hw_found(request.hw_name)
    THEN raise(x, Exc("RuntimeError", "HardwareNotFound", request.hw_name))
    ELSE IF function_name = "is_operator"
    THEN return_response(x, BoolVal(client_id = x.operator_id))
    ELSE IF function_name = "claim_operator"
    THEN LET y == claim_operator(x, client_id, FALSE)
         IN IF y.exc # NoExc THEN y ELSE return_response(y, NoneVal)
    ELSE IF function_name = "release_operator"
    THEN LET y == release_operator(x, client_id)
         IN IF y.exc # NoExc THEN y ELSE return_response(y, NoneVal)
    ELSE dispatch(x, client_id, request.hw_name, function_name, request.args)

\* run_single_request without the return after the response to is_operator:
\* the request goes on to the endpoint lookup
run_single_request_on(x, request) ==
    LET client_id == request.client_id
        function_name == request.function_name
        y == IF function_name = "is_operator"
             THEN return_response(x, BoolVal(client_id = x.operator_id))
             ELSE x
    IN
    IF function_name = "claim_operator"
    THEN LET z == claim_operator(y, client_id, FALSE)
         IN IF z.exc # NoExc THEN z ELSE return_response(z, NoneVal)
    ELSE IF function_name = "release_operator"
    THEN LET z == release_operator(y, client_id)
         IN IF z.exc # NoExc THEN z ELSE return_response(z, NoneVal)
    ELSE IF ~hw_found(request.hw_name)
    THEN raise(y, Exc("RuntimeError", "HardwareNotFound", request.hw_name))
    ELSE dispatch(y, client_id, request.hw_name, function_name, request.args)

run_single_request(x, request) ==
    LET client_id == request.client_id
        function_name == request.function_name
    IN
    IF function_name = "is_operator"
    THEN return_response(x, BoolVal(client_id = x.operator_id))
    ELSE IF function_name = "claim_operator"
    THEN LET y == claim_operator(x, client_id, FALSE)
         IN IF y.exc # NoExc THEN y ELSE return_response(y, NoneVal)
    ELSE IF function_name = "release_operator"
    THEN LET y == release_operator(x, client_id)
         IN IF y.exc # NoExc THEN y ELSE return_response(y, NoneVal)
    ELSE IF ~hw_found(request.hw_name)
    THEN raise(x, Exc("RuntimeError", "HardwareNotFound", request.hw_name))
    ELSE dispatch(x, client_id, request.hw_name, function_name, request.args)

\* pickle.dumps of a value, and bytes that are no pickle
pickle_dumps(value) == <<"pickle", value>>

Garbage == <<"bytes", "garbage">>

\* pickle.loads succeeds on payload
is_pickle(payload) == payload[1] = "pickle"

\* the parameters of run_single_request, and those without a default
Parameters == {"client_id", "hw_name", "function_name", "args"}

Required == {"client_id", "hw_name", "function_name"}

\* args=Tuple[Any], kwargs=Dict[str, Any]: what a request without them runs with
Defaults == <<"default">>

\* self.run_single_request(**request) binds the request to its parameters
binds(request) ==
    /\ Required \subseteq DOMAIN request
    /\ DOMAIN request \subseteq Parameters

bound(request) ==
    [client_id |-> request.client_id,
     args |-> IF "args" \in DOMAIN request THEN request.args ELSE Defaults,
     hw_name |-> request.hw_name, function_name |-> request.function_name]

\* handle with except RuntimeError in place of except Exception: any other
\* exception leaves run_server
handle_runtime(x) ==
    IF x.exc = NoExc THEN x
    ELSE IF x.exc.type = "KeyboardInterrupt" THEN [x EXCEPT !.loop = "break"]
    ELSE IF x.exc.type = "RuntimeError" THEN exception_response(x, x.exc)
    ELSE [x EXCEPT !.loop = "crash"]

\* run_server, the except clauses: KeyboardInterrupt leaves the loop, any
\* other Exception is sent back and the loop goes on
handle(x) ==
    IF x.exc = NoExc THEN x
    ELSE IF x.exc.type = "KeyboardInterrupt" THEN [x EXCEPT !.loop = "break"]
    ELSE exception_response(x, x.exc)

\* one turn of HWControlServer.run_server on a received payload
run_server(x, payload) ==
    IF ~is_pickle(payload)
    THEN handle(raise(x, Exc("UnpicklingError", "", None)))
    ELSE LET request == payload[2]
             y == logger_log(x, INFO, <<"request", request>>)
         IN IF ~binds(request)
            THEN handle(raise(y, Exc("TypeError", "Binding", None)))
            ELSE handle(run_single_request(y, bound(request)))

-----------------------------------------------------------------------------
(* HWControlClient *)

\* the request HWControlClient.run_function pickles; args stands for its
\* args and kwargs
Request(c, h, f, a) ==
    [client_id |-> c, args |-> <<"given", a>>, hw_name |-> h, function_name |-> f]

\* HWControlClient.run_function after socket.recv: the records are handed to
\* the client's logger, then the exception is raised or the value returned
\* run_function raising the propagated exception before the loop over the
\* records of the response
run_function_raise_first(response) ==
    IF "exception" \in DOMAIN response
    THEN [value |-> <<"exc", response.exception>>,
          handled |-> <<>>,
          raised |-> TRUE,
          events |-> <<<<"raise", response.exception>>>>]
    ELSE [value |-> response.return,
          handled |-> response.messages,
          raised |-> FALSE,
          events |-> [i \in 1..Len(response.messages) |->
                         <<"handle", response.messages[i]>>]
                     \o <<<<"return", response.return>>>>]

\* events lists what the caller's thread does, in order: logger.handle of a
\* record, then the raise or the return that ends the call
run_function(response) ==
    [value |-> IF "exception" \in DOMAIN response THEN <<"exc", response.exception>>
                                                  ELSE response.return,
     handled |-> response.messages,
     raised |-> "exception" \in DOMAIN response,
     events |-> [i \in 1..Len(response.messages) |->
                    <<"handle", response.messages[i]>>]
                \o <<IF "exception" \in DOMAIN response
                     THEN <<"raise", response.exception>>
                     ELSE <<"return", response.return>>>>]

\* close going to socket.close whatever is_operator answered
close_keep(at, res) ==
    IF res.raised THEN "close:raised" ELSE "close:socket.close"

\* HWControlClient.close, at the return of run_function: is_operator answered
\* True leads to release_operator, answered False to socket.close, and the
\* answer to release_operator leads to socket.close; an exception raised by
\* run_function leaves close at once
close(at, res) ==
    IF res.raised THEN "close:raised"
    ELSE IF at = "close:is_operator"
    THEN IF res.value = BoolVal(TRUE) THEN "close:release_operator:send"
                                         ELSE "close:socket.close"
    ELSE "close:socket.close"

\* move_to returning as soon as _raw_move_to_ has
move_to_raw(at, res) ==
    IF res.raised THEN "move_to:raised"
    ELSE "move_to:returned"

\* move_to going on to ask in_motion after _raw_move_to_ raised
move_to_on_error(at, res) ==
    IF at = "move_to:_raw_move_to_" THEN "move_to:in_motion:send"
    ELSE IF res.raised THEN "move_to:raised"
    ELSE IF res.value = BoolVal(FALSE) THEN "move_to:returned"
    ELSE "move_to:in_motion:send"

\* the client's GCoderDevice.move_to, at the return of run_function: after
\* _raw_move_to_ the loop asks in_motion, and asks again as long as the
\* answer is True; an exception raised by run_function leaves move_to
move_to(at, res) ==
    IF res.raised THEN "move_to:raised"
    ELSE IF at = "move_to:_raw_move_to_" THEN "move_to:in_motion:send"
    ELSE IF res.value = BoolVal(FALSE) THEN "move_to:returned"
    ELSE "move_to:in_motion:send"

\* where the thread of a client blocked in socket.recv goes on when
\* run_function ends with the result res
resume(at, res) ==
    IF at \in {"close:is_operator", "close:release_operator"} THEN close(at, res)
    ELSE IF at \in {"move_to:_raw_move_to_", "move_to:in_motion"} THEN move_to(at, res)
    ELSE at

\* configurations a reset_devices request carries: the keys present, each
\* naming a /dummy device path
Configs == {{}, {"gcoder_device"}, {"camera_device_path"}}

\* the requests the clients send: the three lock methods as HWControlClient
\* sends them, methods of the two endpoints with their arguments, a method
\* no endpoint has, and an endpoint hw_list does not hold
Calls ==
    {<<"", f, <<>>>> : f \in {"is_operator", "claim_operator", "release_operator"}}
    \cup {<<"gcoder", f, <<>>>> :
            f \in {"is_initialized", "is_dummy", "get_coord", "get_settings",
                   "not_a_method"}}
    \cup {<<"gcoder", "move_to", a>> : a \in {<<0, 0, 0>>, <<MaxCoord, 0, MaxCoord>>}}
    \cup {<<"gcoder", "send_home", <<TRUE, FALSE, TRUE>>>>}
    \cup {<<"gcoder", "reset_devices", <<cfg>>>> : cfg \in {{}, {"gcoder_device"}}}
    \cup {<<"camera", "get_frame", <<>>>>, <<"camera", "not_a_method", <<>>>>}
    \cup {<<"camera", "reset_devices", <<cfg>>>> : cfg \in {{}, {"camera_device_path"}}}
    \cup {<<"drs", "get_coord", <<>>>>}

Idle == [kind |-> "idle"]

NoRequest == Request(None, "", "", <<>>)

-----------------------------------------------------------------------------
(* The state machine *)

Context ==
    [operator_id |-> operator_id, record_list |-> record_list, hw |-> hw,
     emitted |-> <<>>, exc |-> NoExc, trace |-> <<>>, ret |-> NoneVal,
     sent |-> <<>>, loop |-> "continue"]

NoResult == [value |-> NoneVal, handled |-> <<>>, raised |-> FALSE, events |-> <<>>]

\* the record of the server's latest turn: the client served, the request
\* as run_single_request took it (NoRequest when it never did), the operator
\* and the endpoints before it, the context after it, and what run_function
\* made of the response at the client; NoTurn when a client sent since
NoTurn ==
    [x |-> Context, request |-> NoRequest, sender |-> None, before |-> None,
     hw_before |-> hw, result |-> NoResult]

Init ==
    /\ operator_id = None
    /\ record_list = <<>>
    /\ hw \in {[camera |-> NoCamera, gcoder |-> g, rigol |-> NoRigol] :
                   g \in {NoGantry, DummyGantry}}
    /\ log_level \in {NOTSET, WARNING}
    /\ chan = [c \in Clients |-> Idle]
    /\ last = NoTurn
    /\ running = TRUE
    /\ pc = [c \in Clients |-> "main"]

\* socket.send of a payload on the socket of client c
socket_send(c, payload) ==
    /\ chan[c].kind = "idle"
    /\ chan' = [chan EXCEPT ![c] = [payload |-> payload, kind |-> "req"]]
    /\ last' = NoTurn
    /\ UNCHANGED <<operator_id, record_list, hw, log_level, running>>

\* socket.send of a payload by the main thread of client c
Send(c, payload) ==
    /\ pc[c] = "main"
    /\ socket_send(c, payload)
    /\ UNCHANGED pc

\* HWControlClient.run_function: socket.send of the pickled request
ClientSend(c) ==
    \E call \in Calls : Send(c, pickle_dumps(Request(c, call[1], call[2], call[3])))

\* HWControlServer.run_server: recv, run_single_request, send; the client,
\* blocked in socket.recv since its send, takes the response if one is sent
ServerTurn(c) ==
    /\ running
    /\ chan[c].kind = "req"
    /\ LET payload == chan[c].payload
           x == run_server(Context, payload)
       IN /\ operator_id' = x.operator_id
          /\ record_list' = x.record_list
          /\ hw' = x.hw
          /\ running' = (x.loop = "continue")
          /\ last' = [x |-> x,
                      request |-> IF is_pickle(payload) /\ binds(payload[2])
                                  THEN bound(payload[2]) ELSE NoRequest,
                      sender |-> c, before |-> operator_id, hw_before |-> hw,
                      result |-> IF x.sent = <<>> THEN NoResult
                                 ELSE run_function(x.sent[1])]
          /\ chan' = [chan EXCEPT ![c] = IF x.sent = <<>> THEN @ ELSE Idle]
          /\ pc' = [pc EXCEPT ![c] = IF x.sent = <<>> THEN @
                                     ELSE resume(@, run_function(x.sent[1]))]
    /\ UNCHANGED log_level

Next == \E c \in Clients : ClientSend(c) \/ ServerTurn(c)

Spec == Init /\ [][Next]_vars

\* the names a lock method is sent with: the empty string of HWControlClient,
\* a name hw_list does not hold, and the names of the endpoints, of which
\* gcoder may be uninitialized
LockTargets == {"", "drs", "gcoder", "camera"}

\* run_function of is_operator, claim_operator or release_operator, with
\* any hw_name
ClientSendLock(c) ==
    \E h \in LockTargets, f \in {"is_operator", "claim_operator", "release_operator"} :
       Send(c, pickle_dumps(Request(c, h, f, <<>>)))

NextLock == \E c \in Clients : ClientSendLock(c) \/ ServerTurn(c)

\* the server with clients that only query, claim and release the lock
SpecLock == Init /\ [][NextLock]_vars

\* the server of rigol_methods.py once reset_devices has opened the supply
InitRigol ==
    /\ operator_id = None
    /\ record_list = <<>>
    /\ hw = [camera |-> NoCamera, gcoder |-> NoGantry, rigol |-> OpenRigol]
    /\ log_level \in {NOTSET, WARNING}
    /\ chan = [c \in Clients |-> Idle]
    /\ last = NoTurn
    /\ running = TRUE
    /\ pc = [c \in Clients |-> "main"]

\* the requests of RigolDevice: set_voltage and get_voltage with channel and
\* value, and the lock methods
RigolCalls ==
    {<<"", f, <<>>>> : f \in {"claim_operator", "release_operator"}}
    \cup {<<"rigol", "set_voltage", <<1, v>>>> : v \in {LowVolt, HighVolt}}
    \cup {<<"rigol", "get_voltage", <<1>>>>}

\* RigolDevice.set_voltage / get_voltage, HWControlClient.claim_operator /
\* release_operator
ClientSendRigol(c) ==
    \E call \in RigolCalls : Send(c, pickle_dumps(Request(c, call[1], call[2], call[3])))

NextRigol == \E c \in Clients : ClientSendRigol(c) \/ ServerTurn(c)

\* the server with an open power supply and clients that set and read it
SpecRigol == InitRigol /\ [][NextRigol]_vars

\* the records a logger hands to MemHandler.emit
Records == {[msg |-> <<"record", i>>, level |-> l] : l \in {INFO, WARNING}, i \in 1..MaxMessage}

\* a MemHandler(RelayCap) on its own, no request in sight
InitRelay ==
    /\ operator_id = None
    /\ record_list = <<>>
    /\ hw = [camera |-> NoCamera, gcoder |-> NoGantry, rigol |-> NoRigol]
    /\ log_level = NOTSET
    /\ chan = [c \in Clients |-> Idle]
    /\ last = [record |-> None, op |-> "init", before |-> <<>>]
    /\ running = TRUE
    /\ pc = [c \in Clients |-> "main"]

\* MemHandler.emit of a MemHandler(RelayCap)
RelayEmit ==
    /\ \E r \in Records :
          /\ record_list' = deque_append(record_list, r, RelayCap)
          /\ last' = [record |-> r, op |-> "emit", before |-> record_list]
    /\ UNCHANGED <<operator_id, hw, log_level, chan, running, pc>>

\* HWControlServer.clear_message
RelayClear ==
    /\ record_list' = clear_message(Context).record_list
    /\ last' = [record |-> None, op |-> "clear", before |-> record_list]
    /\ UNCHANGED <<operator_id, hw, log_level, chan, running, pc>>

NextRelay == RelayEmit \/ RelayClear

SpecRelay == InitRelay /\ [][NextRelay]_vars

\* the requests sent without args and kwargs
UnarguedCalls ==
    {<<"", "claim_operator">>, <<"", "release_operator">>, <<"gcoder", "move_to">>}

\* socket.send, by a peer that is no HWControlClient, of bytes that are no
\* pickle, of a pickled request without client_id, or of one without args
\* and kwargs
PeerSend(c) ==
    \/ Send(c, Garbage)
    \/ Send(c, pickle_dumps([args |-> <<"given", Origin>>, hw_name |-> "gcoder",
                             function_name |-> "move_to"]))
    \/ \E call \in UnarguedCalls :
          Send(c, pickle_dumps([client_id |-> c, hw_name |-> call[1],
                                function_name |-> call[2]]))

NextWire == \E c \in Clients : ClientSend(c) \/ PeerSend(c) \/ ServerTurn(c)

\* the server with peers that also send what HWControlClient never sends
SpecWire == Init /\ [][NextWire]_vars

\* the requests sent to the endpoint overlap, and the lock methods
OverlapCalls ==
    {<<"", f, <<>>>> : f \in {"is_operator", "claim_operator", "release_operator"}}
    \cup {<<"overlap", f, <<>>>> : f \in {"sample", "is_dummy", "not_a_method"}}
    \cup {<<"overlap", "reset_devices", <<{}>>>>}

\* HWControlClient.run_function: socket.send of the pickled request
ClientSendOverlap(c) ==
    \E call \in OverlapCalls : Send(c, pickle_dumps(Request(c, call[1], call[2], call[3])))

NextOverlap == \E c \in Clients : ClientSendOverlap(c) \/ ServerTurn(c)

\* the server with clients that call an endpoint listing a method as
\* telemetry and as operation
SpecOverlap == Init /\ [][NextOverlap]_vars

\* the endpoint classes of the client, by the name their endpoint has
Endpoints == {"camera", "drs", "gcoder", "hvlv", "senaux", "rigol"}

\* the function names the methods of a client class hand to run_function:
\* the name of the method for those going through _wrap_method, the literal
\* for _run_calibration and _raw_move_to_; is_initialized and is_dummy come
\* from HWClientInstance
client_methods(name) ==
    {"is_initialized", "is_dummy"} \cup
    CASE name = "camera" -> {"reset_devices", "get_frame"}
      [] name = "drs" ->
            {"set_trigger", "set_samples", "set_rate", "start_collection",
             "force_stop", "run_calibration", "get_time_slice", "get_waveform",
             "get_trigger_channel", "get_trigger_direction", "get_trigger_level",
             "get_trigger_delay", "get_samples"}
      [] name = "gcoder" ->
            {"get_coord", "get_current_coord", "get_speed", "get_settings",
             "in_motion", "reset_devices", "run_gcoder", "enable_stepper",
             "disable_stepper", "send_home", "set_speed_limit", "move_to"}
      [] name = "hvlv" ->
            {"reset_devices", "hv_enable", "hv_disable", "set_hv_control_mv",
             "set_lv_mv", "get_hv_status", "get_hv_mv", "get_hv_control_mv",
             "get_lv_mv", "get_vdd_mv"}
      [] name = "senaux" ->
            {"reset_devices", "enable_pd1", "disable_pd1", "enable_pd2",
             "disable_pd2", "pulse_f1", "pulse_f2", "status_pd1", "status_pd2",
             "adc_readmv", "adc_biasresistor"}
      [] name = "rigol" ->
            {"reset_devices", "reset", "set_voltage", "get_voltage", "set_sipm",
             "get_sipm", "set_tb_led", "get_tb_led"}

\* no method of a client class has been sent yet
InitStubs ==
    /\ operator_id = None
    /\ record_list = <<>>
    /\ hw = [camera |-> NoCamera, gcoder |-> DummyGantry, rigol |-> OpenRigol]
    /\ log_level = NOTSET
    /\ chan = [c \in Clients |-> Idle]
    /\ last = [hw_name |-> "", function_name |-> "", branch |-> "", sender |-> None]
    /\ running = TRUE
    /\ pc = [c \in Clients |-> "main"]

\* a method of a client class, called by client c, reaches the initialized
\* endpoint of the matching server class, where run_single_request picks its
\* branch
StubCall(c) ==
    /\ \E name \in Endpoints :
          \E fn \in client_methods(name) :
             last' = [hw_name |-> name, function_name |-> fn,
                      branch |-> branch(name, fn), sender |-> c]
    /\ UNCHANGED <<operator_id, record_list, hw, log_level, chan, running, pc>>

NextStubs == \E c \in Clients : StubCall(c)

\* every client class against the method lists of its server class
SpecStubs == InitStubs /\ [][NextStubs]_vars

\* the targets of the client's move_to
Targets == {<<MaxCoord, 0, 0>>, <<0, MaxCoord, MaxCoord>>}

\* what a client's main thread sends besides close and move_to: the lock
\* methods, and the reset_devices that takes the gantry's device away
MainCalls ==
    {<<"", f, <<>>>> : f \in {"claim_operator", "release_operator"}}
    \cup {<<"gcoder", "reset_devices", <<{}>>>>}

ClientSendMain(c) ==
    \E call \in MainCalls : Send(c, pickle_dumps(Request(c, call[1], call[2], call[3])))

\* HWControlClient.close up to the send of is_operator
CloseIsOperator(c) ==
    /\ pc[c] = "main"
    /\ socket_send(c, pickle_dumps(Request(c, "", "is_operator", <<>>)))
    /\ pc' = [pc EXCEPT ![c] = "close:is_operator"]

\* HWControlClient.close: the send of release_operator
CloseReleaseOperator(c) ==
    /\ pc[c] = "close:release_operator:send"
    /\ socket_send(c, pickle_dumps(Request(c, "", "release_operator", <<>>)))
    /\ pc' = [pc EXCEPT ![c] = "close:release_operator"]

\* HWControlClient.close: socket.close, after which close returns and the
\* client sends nothing more
CloseSocket(c) ==
    /\ pc[c] = "close:socket.close"
    /\ pc' = [pc EXCEPT ![c] = "closed"]
    /\ UNCHANGED <<operator_id, record_list, hw, log_level, chan, last, running>>

\* the client's GCoderDevice.move_to up to the send of _raw_move_to_
MoveTo(c) ==
    /\ pc[c] = "main"
    /\ \E t \in Targets : socket_send(c, pickle_dumps(Request(c, "gcoder", "move_to", t)))
    /\ pc' = [pc EXCEPT ![c] = "move_to:_raw_move_to_"]

\* the client's GCoderDevice.move_to: the send of in_motion in the loop
InMotion(c) ==
    /\ pc[c] = "move_to:in_motion:send"
    /\ socket_send(c, pickle_dumps(Request(c, "gcoder", "in_motion", <<>>)))
    /\ pc' = [pc EXCEPT ![c] = "move_to:in_motion"]

\* the caller of move_to or of close goes on in the main thread, after the
\* return of move_to or after the exception either raised
Continue(c) ==
    /\ pc[c] \in {"move_to:returned", "move_to:raised", "close:raised"}
    /\ pc' = [pc EXCEPT ![c] = "main"]
    /\ UNCHANGED <<operator_id, record_list, hw, log_level, chan, last, running>>

NextClient ==
    \E c \in Clients :
       \/ ClientSendMain(c)
       \/ CloseIsOperator(c)
       \/ CloseReleaseOperator(c)
       \/ CloseSocket(c)
       \/ MoveTo(c)
       \/ InMotion(c)
       \/ Continue(c)
       \/ ServerTurn(c)

\* the server with clients that claim, release, move the gantry and close
SpecClient == Init /\ [][NextClient]_vars

-----------------------------------------------------------------------------
(* The latest turn, as the properties below read it *)

Req == last.request

Turn == Req.client_id # None

\* the server took a payload in the latest step, whatever it held
Served == last.sender # None

Sent == last.x.sent

Trace == last.x.trace

IsCall(e) == e[1] = "call"

IsSet(e) == e[1] = "set"

\* the driver calls and the lock transitions of the turn, in order
DriverCalls == SelectSeq(Trace, IsCall)

IsTransition(e) == IsSet(e) /\ e[2] # e[3]

Transitions == SelectSeq(Trace, IsTransition)

Response == last.x.sent[1]

IsError == "exception" \in DOMAIN Response

ErrorIs(type, msg) ==
    /\ IsError
    /\ Response.exception.type = type
    /\ Response.exception.msg = msg

Conflict == ErrorIs("RuntimeError", "OperatorClaimed")

LockMethods == {"is_operator", "claim_operator", "release_operator"}

\* the request went to an endpoint of hw_list that was initialized
ToReadyEndpoint ==
    /\ Turn
    /\ Req.function_name \notin LockMethods
    /\ hw_found(Req.hw_name)
    /\ is_initialized([hw |-> last.hw_before], Req.hw_name)

TelemetryRequest ==
    /\ ToReadyEndpoint
    /\ InList(Req.function_name, all_telemetry_methods(Req.hw_name))

OperationRequest ==
    /\ ToReadyEndpoint
    /\ ~InList(Req.function_name, all_telemetry_methods(Req.hw_name))
    /\ InList(Req.function_name, all_operation_methods(Req.hw_name))

HeldByOther == last.before \notin {None, Req.client_id}

-----------------------------------------------------------------------------
(* Properties *)

\* C1: an operation method of an endpoint is called only while the operator
\* is the requesting client, and an operation request that finds the lock held
\* by another client is answered with the operator-claimed error, no driver
\* method having been called and no endpoint changed.
C1_OperationOnlyByOperator ==
    /\ \A i \in DOMAIN Trace :
          (IsCall(Trace[i]) /\ InList(Trace[i][3], all_operation_methods(Trace[i][2])))
             => Trace[i][4] = Req.client_id
    /\ (OperationRequest /\ HeldByOther)
          => /\ Conflict
             /\ DriverCalls = <<>>
             /\ last.x.hw = last.hw_before

C1_Witness ==
    /\ OperationRequest
    /\ HeldByOther
    /\ Req.function_name = "move_to"
    /\ Conflict

\* C2: the operator lock is None or one client id, and a turn leaves it at
\* what it was, at the requesting client, or at None.
C2_SingleHolder ==
    /\ operator_id \in Clients \cup {None}
    /\ Turn => operator_id \in {last.before, Req.client_id, None}

C2_Witness ==
    /\ Turn
    /\ last.before \in Clients
    /\ operator_id \in Clients
    /\ operator_id # last.before

\* C3: an operation request to an initialized endpoint that finds the lock
\* unclaimed makes exactly one lock transition, None to the requesting client,
\* and makes it before the driver method is called.
C3_AutoClaimBeforeCall ==
    (OperationRequest /\ last.before = None)
       => /\ Transitions = << <<"set", None, Req.client_id>> >>
          /\ Trace = << <<"set", None, Req.client_id>>,
                        <<"call", Req.hw_name, Req.function_name, Req.client_id>> >>

C3_Witness ==
    /\ OperationRequest
    /\ last.before = None
    /\ operator_id = Req.client_id
    /\ Len(DriverCalls) = 1

ClaimedError(e) == e.type = "RuntimeError" /\ e.msg = "OperatorClaimed"

\* C4: claim_operator with error_if_claimed=True, as the operation branch
\* calls it, raises the operator-claimed error and leaves the holder as it was
\* when another client holds the lock; called for the holder it raises nothing
\* and the holder stays the holder.
C4_NonForcedClaim ==
    /\ \A c \in Clients :
          LET y == claim_operator(Context, c, TRUE)
          IN /\ operator_id \notin {None, c}
                   => ClaimedError(y.exc) /\ y.operator_id = operator_id
             /\ operator_id = c => y.exc = NoExc /\ y.operator_id = c
    /\ (OperationRequest /\ HeldByOther)
          => Conflict /\ operator_id = last.before /\ Transitions = <<>>
    /\ (OperationRequest /\ last.before = Req.client_id)
          => /\ ~Conflict
             /\ operator_id = last.before
             /\ Transitions = <<>>
             /\ Len(DriverCalls) = 1

C4_Witness ==
    /\ OperationRequest
    /\ last.before = Req.client_id
    /\ ~IsError
    /\ \E c \in Clients : chan[c].kind = "req" /\ operator_id \notin {None, c}

\* C5: a release_operator request from a client while another client holds
\* the lock is answered with the release-by-non-operator error and the holder
\* stays that other client.
C5_ReleaseByNonHolder ==
    (Turn /\ Req.function_name = "release_operator" /\ HeldByOther)
       => /\ ErrorIs("RuntimeError", "ReleaseByNonOperator")
          /\ operator_id = last.before
          /\ Transitions = <<>>

C5_Witness ==
    /\ Turn
    /\ Req.function_name = "release_operator"
    /\ HeldByOther
    /\ IsError

\* C6: release_operator by the holder leaves the lock at None, release_operator
\* by any client while the lock is None succeeds and leaves it None, and two
\* releases in a row by a client that may release both succeed and end at None.
C6_ReleaseIdempotent ==
    /\ (Turn /\ Req.function_name = "release_operator" /\ ~HeldByOther)
          => /\ ~IsError
             /\ Response.return = NoneVal
             /\ operator_id = None
    /\ \A c \in Clients :
          operator_id \in {None, c}
             => LET y == release_operator(Context, c)
                    z == release_operator(y, c)
                IN /\ y.exc = NoExc /\ y.operator_id = None
                   /\ z.exc = NoExc /\ z.operator_id = None

C6_Witness ==
    /\ Turn
    /\ Req.function_name = "release_operator"
    /\ last.before = None
    /\ ~IsError
    /\ operator_id = None

TakeoverWarning(r) ==
    r.level = WARNING /\ r.msg = <<"ClaimFromExisting", last.before>>

\* C7: a claim_operator request succeeds from every lock state and leaves the
\* requesting client the holder; when it takes the lock from another client a
\* warning record is in the one response of the turn, which run_function
\* hands to the requesting client's logger; the turn sends nothing else.
C7_ForcedClaim ==
    (Turn /\ Req.function_name = "claim_operator")
       => /\ ~IsError
          /\ operator_id = Req.client_id
          /\ Len(last.x.sent) = 1
          /\ HeldByOther
                => /\ \E i \in DOMAIN Response.messages :
                         TakeoverWarning(Response.messages[i])
                   /\ last.result.handled = Response.messages
                   /\ ~last.result.raised

C7_Witness ==
    /\ Turn
    /\ Req.function_name = "claim_operator"
    /\ HeldByOther
    /\ log_level = WARNING
    /\ operator_id = Req.client_id

\* C8: a telemetry request to an initialized endpoint calls the method
\* whatever the lock state, is never answered with the operator-claimed error,
\* and assigns nothing to the lock.
C8_TelemetryBypassesLock ==
    TelemetryRequest
       => /\ ~Conflict
          /\ DriverCalls =
                << <<"call", Req.hw_name, Req.function_name, last.before>> >>
          /\ SelectSeq(Trace, IsSet) = <<>>
          /\ operator_id = last.before

C8_Witness ==
    /\ TelemetryRequest
    /\ HeldByOther
    /\ ~IsError
    /\ Req.function_name = "get_coord"

\* C9: an is_operator request returns True exactly when the holder is the
\* requesting client and assigns nothing to the lock.
C9_IsOperatorQuery ==
    (Turn /\ Req.function_name = "is_operator")
       => /\ ~IsError
          /\ Response.return = BoolVal(last.before = Req.client_id)
          /\ Trace = <<>>
          /\ operator_id = last.before

C9_Witness ==
    /\ Turn
    /\ Req.function_name = "is_operator"
    /\ HeldByOther
    /\ Response.return = BoolVal(FALSE)

Untouched ==
    /\ Trace = <<>>
    /\ operator_id = last.before
    /\ last.x.hw = last.hw_before

\* C10: a request for an endpoint hw_list does not hold, or for a name that is
\* in neither method list of an initialized endpoint, is answered with an
\* error (hardware not found, function not recognized); no driver method is
\* called and the lock and the endpoints are as before.
C10_UnknownTarget ==
    /\ (Turn /\ Req.function_name \notin LockMethods /\ ~hw_found(Req.hw_name))
          => ErrorIs("RuntimeError", "HardwareNotFound") /\ Untouched
    /\ (/\ ToReadyEndpoint
        /\ ~InList(Req.function_name, all_telemetry_methods(Req.hw_name))
        /\ ~InList(Req.function_name, all_operation_methods(Req.hw_name)))
          => ErrorIs("RuntimeError", "NotRecognized") /\ Untouched

C10_Witness ==
    /\ ToReadyEndpoint
    /\ Req.function_name = "not_a_method"
    /\ last.before = None
    /\ IsError

\* the request named a telemetry or operation method of an endpoint of
\* hw_list that was not initialized
ToUnreadyEndpoint ==
    /\ Turn
    /\ Req.function_name \notin LockMethods
    /\ hw_found(Req.hw_name)
    /\ ~is_initialized([hw |-> last.hw_before], Req.hw_name)
    /\ \/ InList(Req.function_name, all_telemetry_methods(Req.hw_name))
       \/ InList(Req.function_name, all_operation_methods(Req.hw_name))

NotReady == ErrorIs("AssertionError", "NotInitialized")

\* C11: a telemetry or operation request to an endpoint that is not
\* initialized is answered with the not-initialized error; no driver method is
\* called, the endpoints are unchanged and the operator is who it was, no
\* claim having been made.
C11_NotReady ==
    ToUnreadyEndpoint
       => /\ NotReady
          /\ DriverCalls = <<>>
          /\ SelectSeq(Trace, IsSet) = <<>>
          /\ operator_id = last.before
          /\ last.x.hw = last.hw_before

C11_Witness ==
    /\ ToUnreadyEndpoint
    /\ Req.function_name = "move_to"
    /\ last.before = None
    /\ NotReady
    /\ operator_id = None

\* what a turn comes to: the operator, the endpoints, the driver calls and
\* lock assignments made, and what the client gets
Outcome(x) ==
    [operator_id |-> x.operator_id, hw |-> x.hw, trace |-> x.trace,
     value |-> run_function(x.sent[1]).value,
     raised |-> run_function(x.sent[1]).raised]

\* the latest request as HWControlClient sends the lock methods, with the
\* empty hw_name, served from the state the latest turn started in
WithEmptyName ==
    run_server([Context EXCEPT !.operator_id = last.before, !.hw = last.hw_before],
               pickle_dumps(Request(Req.client_id, "", Req.function_name, <<>>)))

\* C12: is_operator, claim_operator and release_operator come to the same
\* for every hw_name (the empty string, a name hw_list does not hold, the
\* name of an endpoint, initialized or not): the operator after, the lock
\* assignments and the response value or error are those of the request with
\* the empty name, and no endpoint is looked at, called or changed.
C12_LockMethodsIgnoreName ==
    (Turn /\ Req.function_name \in LockMethods)
       => /\ Outcome(last.x) = Outcome(WithEmptyName)
          /\ DriverCalls = <<>>
          /\ last.x.hw = last.hw_before
          /\ last.x.exc.msg \notin {"HardwareNotFound", "NotInitialized"}

\* a claim sent with the name of the uninitialized gantry has taken the lock
\* over from the other client
C12_Witness ==
    /\ Turn
    /\ Req.function_name = "claim_operator"
    /\ Req.hw_name = "gcoder"
    /\ ~is_initialized([hw |-> last.hw_before], "gcoder")
    /\ HeldByOther
    /\ operator_id = Req.client_id
    /\ ~IsError

\* the driver method of the request was called and raised
DriverRaised ==
    /\ DriverCalls # <<>>
    /\ IsError
    /\ last.x.exc.type \in {"AssertionError", "RecursionError", "AttributeError"}

\* C13 as stated: the operator changes only in a claim_operator request, a
\* release_operator request or an operation request answered with a result,
\* so that an operation request whose driver call raises leaves the operator
\* who it was.
C13_HolderChangesOnSuccessOnly ==
    (Turn /\ operator_id # last.before)
       => \/ Req.function_name \in {"claim_operator", "release_operator"}
          \/ OperationRequest /\ ~IsError

\* C13, amended: the operator changes only in a claim_operator request, a
\* release_operator request or an operation request to an initialized
\* endpoint that finds the lock free; the claim of such a request is made
\* before the driver method is called and stays when the call raises.
C13_HolderFrame ==
    /\ (Turn /\ operator_id # last.before)
          => \/ Req.function_name \in {"claim_operator", "release_operator"}
             \/ OperationRequest /\ last.before = None
    /\ (OperationRequest /\ ~HeldByOther)
          => /\ operator_id = Req.client_id
             /\ DriverCalls # <<>>
    /\ (OperationRequest /\ HeldByOther) => operator_id = last.before

C13_Witness ==
    /\ OperationRequest
    /\ Req.function_name = "reset_devices"
    /\ DriverRaised
    /\ last.before = None
    /\ operator_id = Req.client_id

\* C14: every response the server sends has the key messages, a list of log
\* records that may be empty, and exactly one of the keys return and
\* exception; the client takes it as a value or as a raised error accordingly.
C14_ResultXorError ==
    \A i \in DOMAIN Sent :
       /\ "messages" \in DOMAIN Sent[i]
       /\ DOMAIN Sent[i].messages = 1..Len(Sent[i].messages)
       /\ ("return" \in DOMAIN Sent[i]) # ("exception" \in DOMAIN Sent[i])
       /\ DOMAIN Sent[i] \subseteq {"messages", "return", "exception"}
       /\ i = 1 => last.result.raised = ("return" \notin DOMAIN Sent[i])

\* an error response carrying a log record has been sent
C14_Witness ==
    /\ Served
    /\ Len(Sent) = 1
    /\ "exception" \in DOMAIN Sent[1]
    /\ Sent[1].messages # <<>>

\* C15: every step in which the server takes a payload is a step of one
\* client's pending request: it sends exactly one response, to that client,
\* which is then free to send again; the requests other clients have pending
\* stay pending, none being taken before the response is sent; and no step
\* but the server's changes the lock, the endpoints or the log records.
C15_OneResponsePerRequest ==
    [][ /\ last'.sender # None
              => /\ chan[last'.sender].kind = "req"
                 /\ Len(last'.x.sent) = 1
                 /\ chan'[last'.sender] = Idle
                 /\ \A d \in Clients \ {last'.sender} : chan'[d] = chan[d]
        /\ last'.sender = None
              => /\ operator_id' = operator_id
                 /\ hw' = hw
                 /\ record_list' = record_list
                 /\ \A d \in Clients : chan[d].kind = "req" => chan'[d] = chan[d]
      ]_vars

\* a request has been answered, with an error, while the request of another
\* client waits to be received
C15_Witness ==
    /\ Served
    /\ Len(Sent) = 1
    /\ IsError
    /\ chan[last.sender] = Idle
    /\ \E d \in Clients \ {last.sender} : chan[d].kind = "req"

\* C16: when the driver method called for a request raises, and whenever
\* anything raises while a payload is handled, the server answers the sender
\* with one error response carrying that exception, which the client raises in
\* turn, and the loop of run_server keeps running for the next request.
C16_ErrorsAnswered ==
    /\ running
    /\ Served
          => /\ last.x.loop = "continue"
             /\ last.x.exc # NoExc
                   => /\ Len(Sent) = 1
                      /\ "exception" \in DOMAIN Sent[1]
                      /\ Sent[1].exception = last.x.exc
                      /\ last.result.raised
                      /\ last.result.value = <<"exc", last.x.exc>>
                      /\ chan[last.sender] = Idle
    /\ (Turn /\ DriverCalls # <<>> /\ "return" \notin DOMAIN Response)
          => last.x.exc # NoExc

\* the gantry driver has raised the AttributeError of get_settings, the
\* client has it, and the server runs
C16_Witness ==
    /\ Turn
    /\ Req.function_name = "get_settings"
    /\ DriverRaised
    /\ last.x.exc.type = "AttributeError"
    /\ last.result.raised
    /\ running

\* the payload of the latest turn was no well-formed request: it did not
\* decode or bind, or it bound without args and kwargs
Malformed == Served /\ (~Turn \/ Req.args = Defaults)

\* C17: a payload that is no well-formed request (bytes that do not decode,
\* or a decoded request lacking a required field) aborts that request alone:
\* the operator and the endpoints are what they were, the sender is answered
\* with an error, and the server keeps running.
C17_MalformedAborts ==
    Malformed
       => /\ operator_id = last.before
          /\ last.x.hw = last.hw_before
          /\ Len(Sent) = 1
          /\ IsError
          /\ chan[last.sender] = Idle
          /\ running

\* a claim_operator request without args and kwargs has been carried out
\* and answered with a result
C17_Witness ==
    /\ Malformed
    /\ Turn
    /\ Req.function_name = "claim_operator"
    /\ last.before # Req.client_id
    /\ operator_id = Req.client_id
    /\ ~IsError

RigolRequest(fn) ==
    /\ Turn
    /\ Req.hw_name = "rigol"
    /\ Req.function_name = fn
    /\ is_initialized([hw |-> last.hw_before], "rigol")

VoltBefore == last.hw_before.rigol.volt[1]

\* C18: on the power supply, set_voltage(1, HighVolt) by the client that
\* holds the lock succeeds and leaves it the operator; with channel 1 so set,
\* set_voltage(1, LowVolt) by a client while another holds the lock is
\* answered with the operator-claimed error, the driver not called and the
\* voltage unchanged, and get_voltage(1) by any client returns HighVolt
\* whoever holds the lock.
C18_PowerSupplyScenario ==
    /\ (RigolRequest("set_voltage") /\ Req.args = <<"given", <<1, HighVolt>>>>
           /\ last.before = Req.client_id)
          => /\ ~IsError
             /\ operator_id = Req.client_id
             /\ hw.rigol.volt[1] = HighVolt
    /\ (RigolRequest("set_voltage") /\ Req.args = <<"given", <<1, LowVolt>>>>
           /\ HeldByOther /\ VoltBefore = HighVolt)
          => /\ Conflict
             /\ DriverCalls = <<>>
             /\ hw.rigol.volt[1] = HighVolt
    /\ (RigolRequest("get_voltage") /\ VoltBefore = HighVolt)
          => /\ ~IsError
             /\ Response.return = <<"float", HighVolt>>

\* the operator's set_voltage has been answered as a method that is not
\* recognized, the supply not called
C18_Witness ==
    /\ RigolRequest("set_voltage")
    /\ last.before = Req.client_id
    /\ ErrorIs("RuntimeError", "NotRecognized")
    /\ DriverCalls = <<>>
    /\ hw.rigol = OpenRigol

\* the deque of the server's MemHandler when it holds Capacity records,
\* numbered in the order of their arrival
FullRelay == [i \in 1..Capacity |-> i]

\* C19: the deque never holds more records than its capacity; an emitted
\* record becomes the last one; below capacity nothing is dropped, and at
\* capacity the first (oldest) record is the one dropped, the others keeping
\* their order; the server's MemHandler does so at Capacity records.
C19_BoundedFifo ==
    /\ Len(record_list) <= RelayCap
    /\ last.op = "emit"
          => /\ record_list # <<>>
             /\ record_list[Len(record_list)] = last.record
             /\ Len(last.before) < RelayCap
                   => /\ Len(record_list) = Len(last.before) + 1
                      /\ \A i \in 1..Len(last.before) : record_list[i] = last.before[i]
             /\ Len(last.before) = RelayCap
                   => /\ Len(record_list) = RelayCap
                      /\ \A i \in 1..(RelayCap - 1) : record_list[i] = last.before[i + 1]
    /\ LET after == emit([record_list |-> FullRelay, emitted |-> <<>>], 0).record_list
       IN /\ Len(after) = Capacity
          /\ after[Capacity] = 0
          /\ \A i \in 1..(Capacity - 1) : after[i] = i + 1

\* a record has been emitted to a full deque of different records, and the
\* oldest has left
C19_Witness ==
    /\ last.op = "emit"
    /\ Len(last.before) = RelayCap
    /\ last.before[1] # last.before[2]
    /\ last.record # last.before[RelayCap]
    /\ record_list[1] = last.before[2]

\* C20: the response to a request carries the records emitted while that
\* request was handled, all of them and no others, in the order of emission,
\* whether it carries a result or an error; once the response is built the
\* deque is empty, so that no record is left for a later response.
C20_RecordsStayInTurn ==
    /\ record_list = <<>>
    /\ Served
          => /\ Len(Sent) = 1
             /\ Sent[1].messages = last.x.emitted
             /\ last.result.handled = last.x.emitted

\* an error response carrying the two records of its turn: the request, and
\* the claim made before the driver method raised
C20_Witness ==
    /\ Turn
    /\ IsError
    /\ Len(last.x.emitted) = 2
    /\ last.x.emitted[1].msg[1] = "request"
    /\ last.x.emitted[2].msg[1] = "Claiming"
    /\ Response.messages = last.x.emitted

\* C23: send_home sent to the gantry by the operator is answered with a result after one call of the driver method, and leaves
\* the target and current coordinates of the axes passed as True at 0 and
\* those of the other axes, and all else of the gantry, as they were.
C23_SendHome ==
    (OperationRequest /\ Req.hw_name = "gcoder" /\ Req.function_name = "send_home"
       /\ Req.args[1] = "given" /\ last.before = Req.client_id)
       => /\ ~IsError
          /\ Len(DriverCalls) = 1
          /\ hw.gcoder = gantry_send_home(last.hw_before.gcoder, Req.args[2])

\* send_home by the operator has been answered with the RecursionError
C23_Witness ==
    /\ OperationRequest
    /\ Req.function_name = "send_home"
    /\ last.before = Req.client_id
    /\ ErrorIs("RecursionError", "")
    /\ hw.gcoder = last.hw_before.gcoder

\* the endpoint the latest request names, in hw_list, was initialized
ReadyBefore == is_initialized([hw |-> last.hw_before], Req.hw_name)

\* C24: a request for is_initialized of an endpoint of hw_list is answered
\* True when the endpoint is initialized and with the not-initialized error
\* when it is not, never with False; is_dummy and a name the endpoint does
\* not have, sent to an endpoint that is not initialized, get the same error.
C24_QueryNeverFalse ==
    /\ (Turn /\ Req.function_name = "is_initialized" /\ hw_found(Req.hw_name))
          => IF ReadyBefore
             THEN ~IsError /\ Response.return = BoolVal(TRUE)
             ELSE NotReady
    /\ (Turn /\ Req.function_name = "is_initialized" /\ ~IsError)
          => Response.return = BoolVal(TRUE)
    /\ (Turn /\ Req.function_name \in {"is_dummy", "not_a_method"}
           /\ hw_found(Req.hw_name) /\ ~ReadyBefore)
          => NotReady /\ DriverCalls = <<>>

\* is_initialized of the gantry without device has been answered with the
\* not-initialized error
C24_Witness ==
    /\ Turn
    /\ Req.hw_name = "gcoder"
    /\ Req.function_name = "is_initialized"
    /\ ~ReadyBefore
    /\ NotReady
    /\ last.result.raised

C27_OnlyHolderReleases ==
    [][ (operator_id # None /\ operator_id' = None)
          => /\ last'.sender = operator_id
             /\ last'.request.client_id = operator_id
             /\ last'.request.function_name = "release_operator"
             /\ "return" \in DOMAIN last'.x.sent[1]
      ]_vars

\* the holder's release has freed the lock while the other client has a
\* request waiting
C27_Witness ==
    /\ Turn
    /\ Req.function_name = "release_operator"
    /\ last.before = Req.client_id
    /\ operator_id = None
    /\ \E d \in Clients \ {last.sender} : chan[d].kind = "req"

\* C21: at the client, run_function hands every record of the response to
\* the local logger, in the order of the response, and only then ends, by
\* returning the result or by raising the propagated exception; an error
\* response has all of its records replayed before the raise as well.
C21_ReplayThenEnd ==
    (Turn /\ Sent # <<>>)
       => LET ev == last.result.events
              n == Len(Response.messages)
          IN /\ Len(ev) = n + 1
             /\ \A i \in 1..n : ev[i] = <<"handle", Response.messages[i]>>
             /\ ev[n + 1] = IF IsError THEN <<"raise", Response.exception>>
                                       ELSE <<"return", Response.return>>
             /\ last.result.raised = IsError

\* an error response carrying a record has been replayed and then raised
C21_Witness ==
    /\ Turn
    /\ Sent # <<>>
    /\ IsError
    /\ Len(Response.messages) >= 1
    /\ last.result.events[1][1] = "handle"
    /\ last.result.events[Len(last.result.events)][1] = "raise"

\* the positions of a thread inside HWControlClient.close
InClose ==
    {"close:is_operator", "close:release_operator:send", "close:release_operator",
     "close:socket.close"}

\* C22: when close of client c has returned, c is not the operator; a step
\* of close changes the holder only from c to None, so a lock that is free
\* or held by another client is left as it is.
C22_CloseLeavesOthers ==
    [][ \A c \in Clients :
          /\ pc'[c] = "closed" => operator_id' # c
          /\ (pc[c] # pc'[c] /\ (pc[c] \in InClose \/ pc'[c] \in InClose))
                => \/ operator_id' = operator_id
                   \/ operator_id = c /\ operator_id' = None
      ]_vars

\* close of the operator has returned after its release_operator freed the
\* lock
C22_Witness ==
    /\ Turn
    /\ pc[last.sender] = "closed"
    /\ Req.function_name = "release_operator"
    /\ last.before = last.sender
    /\ operator_id = None

\* C28: close of a client never ends with an exception: whatever the other
\* clients send between its is_operator and its release_operator, a forced
\* claim_operator included, it goes on to socket.close.
C28_CloseCompletes ==
    \A c \in Clients : pc[c] # "close:raised"

\* the release_operator of a closing client has been refused because another
\* client took the lock after is_operator was answered True
C28_Witness ==
    /\ Turn
    /\ pc[last.sender] = "close:raised"
    /\ Req.function_name = "release_operator"
    /\ ErrorIs("RuntimeError", "ReleaseByNonOperator")
    /\ operator_id \in Clients \ {last.sender}

C30_Refused ==
    /\ Turn
    /\ pc[last.sender] = "move_to:raised"
    /\ Req.function_name = "move_to"
    /\ HeldByOther
    /\ IsError
    /\ chan[last.sender] = Idle

\* the latest request named a method its endpoint lists as telemetry and as
\* operation
ListedTwice ==
    /\ ToReadyEndpoint
    /\ InList(Req.function_name, telemetry_methods(Req.hw_name))
    /\ InList(Req.function_name, operation_methods(Req.hw_name))

\* C26: a method an endpoint lists among its telemetry and among its
\* operation methods is called for any client, whoever holds the lock: the
\* result is answered, no Conflict is raised, no claim is made and the
\* operator is who it was.
C26_TelemetryWins ==
    ListedTwice
       => /\ ~IsError
          /\ Len(DriverCalls) = 1
          /\ DriverCalls[1][3] = Req.function_name
          /\ SelectSeq(Trace, IsSet) = <<>>
          /\ operator_id = last.before

\* sample of the endpoint overlap has been answered to a client while the
\* other client held the lock
C26_Witness ==
    /\ ListedTwice
    /\ HeldByOther
    /\ ~IsError
    /\ operator_id = last.before
    /\ Len(DriverCalls) = 1

\* C29: every function name a client class sends is in
\* all_telemetry_methods or all_operation_methods of the matching server
\* class, so that no method of a client class, sent to an initialized endpoint,
\* is answered with the not-recognized error.
C29_StubsRecognized ==
    last.sender # None => last.branch \in {"telemetry", "operation"}

\* run_gcoder of the client's GCoderDevice has reached the server's
\* GCoderDevice, which lists run_gcode
C29_Witness ==
    /\ last.sender # None
    /\ last.hw_name = "gcoder"
    /\ last.function_name = "run_gcoder"
    /\ last.branch = "not recognized"
    /\ InList("run_gcode", all_operation_methods("gcoder"))


=============================================================================
